---- MODULE Spec2Model ----
(***************************************************************************)
(* The hypertime simulation engine of src/src/util.ts: chunks of hypertime *)
(* tagged with histories, event discovery, the next-interesting-time       *)
(* oracle, chunk evolution, the step function and the evolveUntil driver.  *)
(* All times are integers; JavaScript's Infinity is the sentinel Inf.      *)
(***************************************************************************)
EXTENDS Integers, Sequences, FiniteSets, TLC

VARIABLES rules, now, chunks, past, err, pc, target, entry, calls, out

vars == <<rules, now, chunks, past, err, pc, target, entry, calls, out>>

(***************************************************************************)
(* Bounds of the model.                                                    *)
(***************************************************************************)
MaxNow == 9          \* free stepping is applied while the clock is <= MaxNow
MaxOffset == 3       \* depart/arrive offsets of enumerated trips are <= MaxOffset
NegOffset == 1       \* ... and >= -NegOffset
MaxTarget == 21      \* evolveUntil targets are 0..MaxTarget
MaxD == 3            \* stripes: depart offset d in 0..MaxD
MaxG == 3            \* stripes: gap g = d - v in 1..MaxG

TripIds == {"a", "b"}
Histories == SUBSET TripIds
Offsets == (0 - NegOffset)..MaxOffset

(***************************************************************************)
(* JavaScript numbers: Infinity, -Infinity and NaN as sentinels.           *)
(***************************************************************************)
Inf == 1000000
NegInf == 0 - Inf
NaN == Inf + 1

Plus(a, b) ==
  IF a = NaN \/ b = NaN THEN NaN
  ELSE IF (a = Inf /\ b = NegInf) \/ (a = NegInf /\ b = Inf) THEN NaN
  ELSE IF a = Inf \/ b = Inf THEN Inf
  ELSE IF a = NegInf \/ b = NegInf THEN NegInf
  ELSE a + b

Neg(a) == IF a = NaN THEN NaN ELSE 0 - a

Minus(a, b) == Plus(a, Neg(b))

Abs(a) == IF a < 0 THEN 0 - a ELSE a

SetMin(S) == IF S = {} THEN Inf ELSE CHOOSE x \in S : \A y \in S : x <= y

SetMaxOr(S, d) == IF S = {} THEN d ELSE CHOOSE x \in S : \A y \in S : x >= y

(***************************************************************************)
(* Sequence helpers: immutable.js List.sortBy (stable), flatMap.           *)
(***************************************************************************)
RECURSIVE InsertByKey(_, _)
InsertByKey(s, p) ==
  IF s = <<>> THEN <<p>>
  ELSE IF s[Len(s)][1] <= p[1] THEN Append(s, p)
  ELSE Append(InsertByKey(SubSeq(s, 1, Len(s) - 1), p), s[Len(s)])

RECURSIVE SortPairs(_)
SortPairs(s) ==
  IF s = <<>> THEN <<>>
  ELSE InsertByKey(SortPairs(SubSeq(s, 1, Len(s) - 1)), s[Len(s)])

RECURSIVE Concat(_)
Concat(ss) == IF ss = <<>> THEN <<>> ELSE Head(ss) \o Concat(Tail(ss))

Range(s) == {s[i] : i \in 1..Len(s)}

(***************************************************************************)
(* Time-domain conversions.                                                *)
(***************************************************************************)
\* the departure conversion with the sign of the calendar offset flipped
hc2rtSubtracts(h, c) == Minus(h, c)

hc2rt(h, c) == Plus(h, c)

rh2ct(r, h) == Minus(r, h)

rc2ht(r, c) == Minus(r, c)

(***************************************************************************)
(* Records.                                                                *)
(***************************************************************************)
TripR(id, depart, arrive) == [id |-> id, depart |-> depart, arrive |-> arrive]

EventR(tripId, r0, departH0, arriveH0) ==
  [tripId |-> tripId, r0 |-> r0, departH0 |-> departH0, arriveH0 |-> arriveH0]

BoxR(start, rf) == [start |-> start, rf |-> rf]

ChunkR(start, end, history) == [start |-> start, end |-> end, history |-> history]

GodViewR(rs, n, cs, p) == [rules |-> rs, now |-> n, chunks |-> cs, past |-> p]

Ok(v) == [err |-> "none", val |-> v]

Throw(msg) == [err |-> msg, val |-> <<>>]

(***************************************************************************)
(* normalizeBoxes: sort by start.r0, then merge a box into the last box    *)
(* found by findLastIndex when that box is the same trip ending where the  *)
(* new one starts.                                                         *)
(***************************************************************************)
sortBoxes(boxes) ==
  LET s == SortPairs([i \in 1..Len(boxes) |-> <<boxes[i].start.r0, boxes[i]>>])
  IN [i \in 1..Len(s) |-> s[i][2]]

boxJoinsAnyGap(b, newBox) == b.start.tripId = newBox.start.tripId

boxJoins(b, newBox) ==
  b.start.tripId = newBox.start.tripId /\ b.rf = newBox.start.r0

boxFindPred(b, newBox) ==
  \/ boxJoins(b, newBox)
  \/ /\ newBox.start.departH0 <= b.start.arriveH0
     /\ b.start.arriveH0 < Plus(newBox.start.departH0, Minus(newBox.rf, newBox.start.r0))

RECURSIVE normalizeBoxesLoop(_, _, _)
normalizeBoxesLoop(boxes, res, i) ==
  IF i > Len(boxes) THEN res
  ELSE LET newBox == boxes[i]
           prevInd == SetMaxOr({j \in 1..Len(res) : boxFindPred(res[j], newBox)}, 0)
       IN IF prevInd # 0 /\ boxJoins(res[prevInd], newBox)
          THEN normalizeBoxesLoop(boxes, [res EXCEPT ![prevInd].rf = newBox.rf], i + 1)
          ELSE normalizeBoxesLoop(boxes, Append(res, newBox), i + 1)

normalizeBoxes(boxes) ==
  LET sorted == sortBoxes(boxes)
  IN IF sorted = <<>> THEN <<>> ELSE normalizeBoxesLoop(sorted, <<sorted[1]>>, 2)

(***************************************************************************)
(* normalizeChunks: sort by start, validate, merge adjacent chunks with    *)
(* equal histories unless the boundary is in noJoinAt.                     *)
(***************************************************************************)
sortChunks(cs) ==
  LET s == SortPairs([i \in 1..Len(cs) |-> <<cs[i].start, cs[i]>>])
  IN [i \in 1..Len(s) |-> s[i][2]]

\* histories compared by reference (===) instead of by value: never equal
chunksJoinByReference(prev, newChunk, noJoinAt) == FALSE

\* the merge condition without the noJoinAt test
chunksJoinIgnoringSplits(prev, newChunk, noJoinAt) == newChunk.history = prev.history

chunksJoin(prev, newChunk, noJoinAt) ==
  newChunk.history = prev.history /\ newChunk.start \notin noJoinAt

RECURSIVE normalizeChunksLoopReplace(_, _, _, _)
normalizeChunksLoopReplace(cs, noJoinAt, res, i) ==
  IF i > Len(cs) THEN Ok(res)
  ELSE LET newChunk == cs[i]
           prev == res[Len(res)]
       IN IF newChunk.start # prev.end THEN Throw("chunks have gaps")
          ELSE IF chunksJoin(prev, newChunk, noJoinAt)
          THEN normalizeChunksLoopReplace(cs, noJoinAt,
                                          [res EXCEPT ![Len(res)] = newChunk], i + 1)
          ELSE normalizeChunksLoopReplace(cs, noJoinAt, Append(res, newChunk), i + 1)

\* the merge loop without the test newChunk.start !== prev.end
RECURSIVE normalizeChunksLoopNoGapCheck(_, _, _, _)
normalizeChunksLoopNoGapCheck(cs, noJoinAt, res, i) ==
  IF i > Len(cs) THEN Ok(res)
  ELSE IF chunksJoin(res[Len(res)], cs[i], noJoinAt)
  THEN normalizeChunksLoopNoGapCheck(cs, noJoinAt,
                                     [res EXCEPT ![Len(res)].end = cs[i].end], i + 1)
  ELSE normalizeChunksLoopNoGapCheck(cs, noJoinAt, Append(res, cs[i]), i + 1)

RECURSIVE normalizeChunksLoop(_, _, _, _)
normalizeChunksLoop(cs, noJoinAt, res, i) ==
  IF i > Len(cs) THEN Ok(res)
  ELSE LET newChunk == cs[i]
           prev == res[Len(res)]
       IN IF newChunk.start # prev.end THEN Throw("chunks have gaps")
          ELSE IF chunksJoin(prev, newChunk, noJoinAt)
          THEN normalizeChunksLoop(cs, noJoinAt,
                                   [res EXCEPT ![Len(res)].end = newChunk.end], i + 1)
          ELSE normalizeChunksLoop(cs, noJoinAt, Append(res, newChunk), i + 1)

\* normalizeChunks without the zero-or-negative-length check
normalizeChunksUnchecked(cs0, noJoinAt) ==
  LET cs == sortChunks(cs0)
  IN IF Len(cs) = 0 THEN Throw("no chunks")
     ELSE IF cs[1].start # 0 THEN Throw("chunks do not start at 0")
     ELSE IF cs[Len(cs)].end # Inf THEN Throw("chunks do not end at Infinity")
     ELSE normalizeChunksLoop(cs, noJoinAt, <<cs[1]>>, 2)

normalizeChunks(cs0, noJoinAt) ==
  LET cs == sortChunks(cs0)
  IN IF Len(cs) = 0 THEN Throw("no chunks")
     ELSE IF cs[1].start # 0 THEN Throw("chunks do not start at 0")
     ELSE IF cs[Len(cs)].end # Inf THEN Throw("chunks do not end at Infinity")
     ELSE IF \E i \in 1..Len(cs) : cs[i].start >= cs[i].end
          THEN Throw("chunks have zero or negative length")
     ELSE normalizeChunksLoop(cs, noJoinAt, <<cs[1]>>, 2)

(***************************************************************************)
(* chunks.find(c => c.start <= h && h < c.end): index of the first chunk   *)
(* containing h, 0 when there is none.                                     *)
(***************************************************************************)
findChunk(cs, h) ==
  LET hits == {i \in 1..Len(cs) : cs[i].start <= h /\ h < cs[i].end}
  IN IF hits = {} THEN 0 ELSE CHOOSE i \in hits : \A j \in hits : i <= j

\* the distance to hypertime 0 taken with its sign (h0 instead of Math.abs(h0))
timeUntilChunkEndSigned(cs, h0) ==
  IF h0 < 0 THEN Ok(h0)
  ELSE IF findChunk(cs, h0) = 0 THEN Throw("no chunk contains")
  ELSE Ok(Minus(cs[findChunk(cs, h0)].end, h0))

timeUntilChunkEnd(cs, h0) ==
  IF h0 < 0 THEN Ok(Abs(h0))
  ELSE LET i == findChunk(cs, h0)
       IN IF i = 0 THEN Throw("no chunk contains") ELSE Ok(Minus(cs[i].end, h0))

(***************************************************************************)
(* getNonPastEvents: per chunk and per trip keyed by the chunk's history,  *)
(* the primary event and, for an immediate event landing at h >= 0, one    *)
(* level of chained events.  A result is Ok(value) or Throw(message).      *)
(***************************************************************************)
FirstError(results) ==
  results[CHOOSE k \in 1..Len(results) :
            /\ results[k].err # "none"
            /\ \A j \in 1..(k - 1) : results[j].err = "none"].err

collect(results) ==
  IF \E k \in 1..Len(results) : results[k].err # "none"
  THEN Throw(FirstError(results))
  ELSE Ok(Concat([k \in 1..Len(results) |-> results[k].val]))

\* the chained event tagged with the arrival hypertime instead of the chunk's start
chainedEventFromArrival(gv, chunk, arriveH0, nextTrip) ==
  LET r0 == hc2rt(arriveH0, nextTrip.depart)
  IN IF r0 <= gv.now THEN <<>>
     ELSE <<EventR(nextTrip.id, r0, arriveH0, rc2ht(r0, nextTrip.arrive))>>

chainedEvent(gv, chunk, arriveH0, nextTrip) ==
  LET r0 == hc2rt(arriveH0, nextTrip.depart)
  IN IF r0 <= gv.now THEN <<>>
     ELSE <<EventR(nextTrip.id, r0, chunk.start, rc2ht(r0, nextTrip.arrive))>>

chainedEventsIn(gv, chunk, trip, arriveH0, i) ==
  IF i = 0 THEN Throw("no chunk contains")
  ELSE LET nextTrips == gv.rules[gv.chunks[i].history \cup {trip.id}]
       IN Ok(Concat([k \in 1..Len(nextTrips) |->
                       chainedEvent(gv, chunk, arriveH0, nextTrips[k])]))

chainedEvents(gv, chunk, trip, arriveH0) ==
  chainedEventsIn(gv, chunk, trip, arriveH0, findChunk(gv.chunks, arriveH0))

withChained(first, ch) ==
  IF ch.err # "none" THEN ch ELSE Ok(<<first>> \o ch.val)

\* the past test written r0 <= now: an event due right now is dropped
tripEventsAtFutureOnly(gv, chunk, trip, r0, arriveH0) ==
  IF r0 <= gv.now THEN Ok(<<>>)
  ELSE Ok(<<EventR(trip.id, r0, chunk.start, arriveH0)>>)

tripEventsAt(gv, chunk, trip, r0, arriveH0) ==
  IF r0 < gv.now THEN Ok(<<>>)
  ELSE IF r0 = gv.now /\ arriveH0 >= 0
  THEN withChained(EventR(trip.id, r0, chunk.start, arriveH0),
                   chainedEvents(gv, chunk, trip, arriveH0))
  ELSE Ok(<<EventR(trip.id, r0, chunk.start, arriveH0)>>)

tripEvents(gv, chunk, trip) ==
  tripEventsAt(gv, chunk, trip, hc2rt(chunk.start, trip.depart),
               rc2ht(hc2rt(chunk.start, trip.depart), trip.arrive))

\* the rules looked up by subset: the trips of the empty key fire in every chunk
chunkEventsSubsetKeys(gv, chunk) ==
  LET trips == gv.rules[{}] \o (IF chunk.history = {} THEN <<>> ELSE gv.rules[chunk.history])
  IN [k \in 1..Len(trips) |-> tripEvents(gv, chunk, trips[k])]

chunkEvents(gv, chunk) ==
  LET trips == gv.rules[chunk.history]
  IN [k \in 1..Len(trips) |-> tripEvents(gv, chunk, trips[k])]

getNonPastEvents(gv) ==
  collect(Concat([i \in 1..Len(gv.chunks) |-> chunkEvents(gv, gv.chunks[i])]))

(***************************************************************************)
(* getNextInterestingTime: Math.min over the candidates of every event.    *)
(***************************************************************************)
immediateCandidatesNoCatchUp(gv, events, e, d, a) ==
  IF d.err # "none" THEN d
  ELSE IF a.err # "none" THEN a
  ELSE Ok({Plus(gv.now, d.val), Plus(gv.now, a.val)})

\* the candidates without the distance from arriveH0 to the end of its chunk
immediateCandidatesDepartOnly(gv, events, e, d, a) ==
  IF d.err # "none" THEN d
  ELSE IF a.err # "none" THEN a
  ELSE Ok({Plus(gv.now, d.val)}
          \cup {Minus(Plus(gv.now, e2.arriveH0), e.departH0) :
                  e2 \in {x \in Range(events) :
                            x.r0 = gv.now /\ x.arriveH0 > e.departH0}})

immediateCandidates(gv, events, e, d, a) ==
  IF d.err # "none" THEN d
  ELSE IF a.err # "none" THEN a
  ELSE Ok({Plus(gv.now, d.val), Plus(gv.now, a.val)}
          \cup {Minus(Plus(gv.now, e2.arriveH0), e.departH0) :
                  e2 \in {x \in Range(events) :
                            x.r0 = gv.now /\ x.arriveH0 > e.departH0}})

eventCandidates(gv, events, e) ==
  IF e.r0 > gv.now THEN Ok({e.r0})
  ELSE immediateCandidates(gv, events, e,
                           timeUntilChunkEnd(gv.chunks, e.departH0),
                           timeUntilChunkEnd(gv.chunks, e.arriveH0))

unionOf(cands) ==
  IF \E k \in 1..Len(cands) : cands[k].err # "none"
  THEN Throw(FirstError(cands))
  ELSE Ok(UNION {cands[k].val : k \in 1..Len(cands)})

candidatesOf(gv, evs) ==
  IF evs.err # "none" THEN evs
  ELSE unionOf([k \in 1..Len(evs.val) |-> eventCandidates(gv, evs.val, evs.val[k])])

nextTimeCandidates(gv) == candidatesOf(gv, getNonPastEvents(gv))

mathMin(c) == IF c.err # "none" THEN c ELSE Ok(SetMin(c.val))

mathMax(c) == IF c.err # "none" THEN c ELSE Ok(SetMaxOr(c.val, NegInf))

getNextInterestingTimeMax(gv) == mathMax(nextTimeCandidates(gv))

getNextInterestingTime(gv) == mathMin(nextTimeCandidates(gv))

(***************************************************************************)
(* evolveChunks: per chunk, split out the arrival bands (history gains the *)
(* trip id) and then the departure bands (history unchanged).              *)
(* intersection / arrayDifference are the interval-operations calls on     *)
(* half-open intervals; <<>> stands for null.                              *)
(***************************************************************************)
intersection(a, b) ==
  LET s == IF a[1] >= b[1] THEN a[1] ELSE b[1]
      e == IF a[2] <= b[2] THEN a[2] ELSE b[2]
  IN IF s < e THEN <<s, e>> ELSE <<>>

arrayDifference(iv, ov) ==
  (IF iv[1] < ov[1] THEN << <<iv[1], ov[1]>> >> ELSE <<>>)
  \o (IF ov[2] < iv[2] THEN << <<ov[2], iv[2]>> >> ELSE <<>>)

\* the pieces outside the band rebuilt with an empty history
splitAtClearingRest(subchunk, overlap, bandHistory) ==
  IF overlap = <<>> THEN <<subchunk>>
  ELSE <<ChunkR(overlap[1], overlap[2], bandHistory)>>
       \o [k \in 1..Len(arrayDifference(<<subchunk.start, subchunk.end>>, overlap)) |->
             ChunkR(arrayDifference(<<subchunk.start, subchunk.end>>, overlap)[k][1],
                    arrayDifference(<<subchunk.start, subchunk.end>>, overlap)[k][2], {})]

splitAt(subchunk, overlap, bandHistory) ==
  IF overlap = <<>> THEN <<subchunk>>
  ELSE LET difference == arrayDifference(<<subchunk.start, subchunk.end>>, overlap)
       IN <<ChunkR(overlap[1], overlap[2], bandHistory)>>
          \o [k \in 1..Len(difference) |->
                ChunkR(difference[k][1], difference[k][2], subchunk.history)]

\* the band taken to be the whole subchunk
splitBandWhole(subchunk, h0, dt, bandHistory) ==
  <<ChunkR(subchunk.start, subchunk.end, bandHistory)>>

splitBand(subchunk, h0, dt, bandHistory) ==
  splitAt(subchunk,
          intersection(<<subchunk.start, subchunk.end>>, <<h0, Plus(h0, dt)>>),
          bandHistory)

RECURSIVE splitArrivals(_, _, _, _)
splitArrivals(subchunks, arrivals, i, dt) ==
  IF i > Len(arrivals) THEN subchunks
  ELSE splitArrivals(
         Concat([k \in 1..Len(subchunks) |->
                   splitBand(subchunks[k], arrivals[i].arriveH0, dt,
                             subchunks[k].history \cup {arrivals[i].tripId})]),
         arrivals, i + 1, dt)

RECURSIVE splitDepartures(_, _, _, _)
splitDepartures(subchunks, departures, i, dt) ==
  IF i > Len(departures) THEN subchunks
  ELSE splitDepartures(
         Concat([k \in 1..Len(subchunks) |->
                   splitBand(subchunks[k], departures[i].departH0, dt,
                             subchunks[k].history)]),
         departures, i + 1, dt)

\* the arrivals of a chunk taken to be all the events, wherever they land
arrivalsInAnyChunk(chunk, events) == events

arrivalsIn(chunk, events) ==
  SelectSeq(events, LAMBDA e : chunk.start <= e.arriveH0 /\ e.arriveH0 < chunk.end)

\* the departures of a chunk taken to be all the events, wherever they leave from
departuresInAnyChunk(chunk, events) == events

departuresIn(chunk, events) ==
  SelectSeq(events, LAMBDA e : chunk.start <= e.departH0 /\ e.departH0 < chunk.end)

evolveChunk(chunk, events, dt) ==
  splitDepartures(splitArrivals(<<chunk>>, arrivalsIn(chunk, events), 1, dt),
                  departuresIn(chunk, events), 1, dt)

\* evolveChunks without the test on the events' r0
evolveChunksUnchecked(cs, events, dt) ==
  IF events = <<>> THEN Ok(cs)
  ELSE Ok(Concat([i \in 1..Len(cs) |-> evolveChunk(cs[i], events, dt)]))

evolveChunks(cs, events, dt) ==
  IF events = <<>> THEN Ok(cs)
  ELSE IF Cardinality({events[k].r0 : k \in 1..Len(events)}) > 1
  THEN Throw("multiple r0s")
  ELSE Ok(Concat([i \in 1..Len(cs) |-> evolveChunk(cs[i], events, dt)]))

(***************************************************************************)
(* normalizeGodView: chunks normalized with forced splits at the departure *)
(* points of the discoverable events, boxes normalized and validated.      *)
(***************************************************************************)
\* the box check without the test against the clock
boxErrorLengthOnly(b, n) ==
  IF b.start.r0 >= b.rf THEN "box has zero or negative length" ELSE "none"

boxError(b, n) ==
  IF b.start.r0 >= b.rf THEN "box has zero or negative length"
  ELSE IF b.rf > n THEN "supposedly-past event is actually in future"
  ELSE "none"

pastError(boxes, n) ==
  LET bad == {i \in 1..Len(boxes) : boxError(boxes[i], n) # "none"}
  IN IF bad = {} THEN "none"
     ELSE boxError(boxes[CHOOSE i \in bad : \A j \in bad : i <= j], n)

validatedGodView(gv, cs, boxes, boxErr) ==
  IF cs.err # "none" THEN cs
  ELSE IF boxErr # "none" THEN Throw(boxErr)
  ELSE Ok(GodViewR(gv.rules, gv.now, cs.val, boxes))

normalizedWith(gv, evs, boxes) ==
  IF evs.err # "none" THEN evs
  ELSE validatedGodView(
         gv,
         normalizeChunks(gv.chunks, {evs.val[k].departH0 : k \in 1..Len(evs.val)}),
         boxes, pastError(boxes, gv.now))

normalizeGodView(gv) ==
  normalizedWith(gv, getNonPastEvents(gv), normalizeBoxes(gv.past))

(***************************************************************************)
(* stepGodView.                                                            *)
(***************************************************************************)
immediateEvents(gv, events) == SelectSeq(events, LAMBDA e : e.r0 = gv.now)

evolvedEvents(immEvents) ==
  LET immArrivalHypertimes == {immEvents[k].arriveH0 : k \in 1..Len(immEvents)}
  IN SelectSeq(immEvents, LAMBDA e : e.departH0 \notin immArrivalHypertimes)

newBoxesLate(immEvents, dt) ==
  [k \in 1..Len(immEvents) |->
     BoxR(EventR(immEvents[k].tripId, immEvents[k].r0,
                 immEvents[k].departH0, immEvents[k].arriveH0),
          Plus(Plus(immEvents[k].r0, dt), 1))]

\* boxes only for the events that are passed on to evolveChunks
newBoxesOfEvolved(immEvents, dt) ==
  [k \in 1..Len(evolvedEvents(immEvents)) |->
     BoxR(evolvedEvents(immEvents)[k], Plus(evolvedEvents(immEvents)[k].r0, dt))]

\* boxes whose start event has departH0 and arriveH0 exchanged
newBoxesSwapped(immEvents, dt) ==
  [k \in 1..Len(immEvents) |->
     BoxR(EventR(immEvents[k].tripId, immEvents[k].r0,
                 immEvents[k].arriveH0, immEvents[k].departH0),
          Plus(immEvents[k].r0, dt))]

\* every immediate event logged twice
newBoxesTwice(immEvents, dt) ==
  [k \in 1..(2 * Len(immEvents)) |->
     BoxR(immEvents[((k - 1) % Len(immEvents)) + 1],
          Plus(immEvents[((k - 1) % Len(immEvents)) + 1].r0, dt))]

newBoxes(immEvents, dt) ==
  [k \in 1..Len(immEvents) |->
     BoxR(EventR(immEvents[k].tripId, immEvents[k].r0,
                 immEvents[k].departH0, immEvents[k].arriveH0),
          Plus(immEvents[k].r0, dt))]

stepFinish(gv, newNow, newChunks, newPast) ==
  IF newChunks.err # "none" THEN newChunks
  ELSE normalizeGodView(GodViewR(gv.rules, newNow, newChunks.val, newPast))

stepEvolve(gv, newNow, dt, immEvents) ==
  stepFinish(gv, newNow,
             evolveChunks(gv.chunks, evolvedEvents(immEvents), dt),
             gv.past \o newBoxes(immEvents, dt))

stepUntilTime(gv, stepUntil, events) ==
  IF stepUntil.err # "none" THEN stepUntil
  ELSE stepEvolve(gv, stepUntil.val, Minus(stepUntil.val, gv.now),
                  immediateEvents(gv, events.val))

stepNormalized(gv) ==
  stepUntilTime(gv, getNextInterestingTime(gv), getNonPastEvents(gv))

stepIfNormal(gv) == IF gv.err # "none" THEN gv ELSE stepNormalized(gv.val)

stepGodView(gv0) == stepIfNormal(normalizeGodView(gv0))

(***************************************************************************)
(* The state: the caller's current GodView (rules, now, chunks, past), the *)
(* error thrown so far (err), the evolveUntil driver's frame (pc, target,  *)
(* entry = its GodView argument, calls = steps applied so far) and the     *)
(* value returned by the last query (out).                                 *)
(***************************************************************************)
GV == GodViewR(rules, now, chunks, past)

Snapshot(g) == [now |-> g.now, chunks |-> g.chunks, past |-> g.past]

InitialChunks == <<ChunkR(0, Inf, {})>>

NoOut == [op |-> "none", val |-> 0]

EmptyRules == [h \in Histories |-> <<>>]

\* A ruleset from rule lines <<key, trip>>: the trips listed under each key, in line order.
RulesOf(lines) ==
  [h \in Histories |->
     LET mine == SelectSeq(lines, LAMBDA l : l[1] = h)
     IN [k \in 1..Len(mine) |-> mine[k][2]]]

RuleLines(id, offsets) ==
  {<<h, TripR(id, d, a)>> : h \in Histories, d \in offsets, a \in offsets}

\* Every ruleset of at most one rule per trip id, offsets drawn from the given set;
\* two trips under one key are listed in either order.
RulesetsOver(offsets) ==
  {EmptyRules}
  \cup {RulesOf(<<l>>) : l \in RuleLines("a", offsets)}
  \cup {RulesOf(<<l1, l2>>) : l1 \in RuleLines("a", offsets), l2 \in RuleLines("b", offsets)}
  \cup {RulesOf(<<l2, l1>>) :
          <<l1, l2>> \in {p \in RuleLines("a", offsets) \X RuleLines("b", offsets) : p[1][1] = p[2][1]}}

InitFrame ==
  /\ err = "none"
  /\ pc = "idle"
  /\ target = 0
  /\ entry = Snapshot(GV)
  /\ calls = 0
  /\ out = NoOut

InitGodView ==
  /\ now = 0
  /\ chunks = InitialChunks
  /\ past = <<>>

Init ==
  /\ rules \in RulesetsOver(Offsets)
  /\ InitGodView
  /\ InitFrame

\* The caller applies stepGodView to its current GodView; a throw leaves it unchanged.
ApplyResult(r) ==
  IF r.err # "none"
  THEN /\ err' = r.err
       /\ UNCHANGED <<now, chunks, past>>
  ELSE /\ now' = r.val.now
       /\ chunks' = r.val.chunks
       /\ past' = r.val.past
       /\ err' = err

ApplyStep == ApplyResult(stepGodView(GV))

Step ==
  /\ pc = "idle"
  /\ err = "none"
  /\ (now <= MaxNow \/ now = Inf)
  /\ ApplyStep
  /\ out' = NoOut
  /\ UNCHANGED <<rules, pc, target, entry, calls>>

Next == Step

Spec == Init /\ [][Next]_vars

(***************************************************************************)
(* evolveUntil(target, gv): the driver loop, one action per loop           *)
(* iteration.  It steps while now < target and now is finite, and returns  *)
(* the GodView it then holds.                                              *)
(***************************************************************************)
evolveUntilContinuesInclusive(g, t) == g.now <= t /\ g.now # Inf

\* the loop condition without the target test
evolveUntilContinuesPastTarget(g, t) == g.now # Inf

evolveUntilContinues(g, t) == g.now < t /\ g.now # Inf

EvolveCall ==
  /\ pc = "idle"
  /\ err = "none"
  /\ \E t \in 0..MaxTarget : target' = t
  /\ pc' = "loop"
  /\ entry' = Snapshot(GV)
  /\ calls' = 0
  /\ out' = NoOut
  /\ UNCHANGED <<rules, now, chunks, past, err>>

EvolveIter ==
  /\ pc = "loop"
  /\ err = "none"
  /\ evolveUntilContinues(GV, target)
  /\ ApplyStep
  /\ calls' = calls + 1
  /\ UNCHANGED <<rules, pc, target, entry, out>>

EvolveReturn ==
  /\ pc = "loop"
  /\ err = "none"
  /\ ~evolveUntilContinues(GV, target)
  /\ pc' = "idle"
  /\ out' = [op |-> "evolveUntil", val |-> calls]
  /\ UNCHANGED <<rules, now, chunks, past, err, target, entry, calls>>

StripeRules(d, v) == RulesOf(<< <<{}, TripR("a", d, v)>> >>)

StripeRulesets == {StripeRules(d, d - g) : d \in 0..MaxD, g \in 1..MaxG}

PreemptRules ==
  RulesOf(<< <<{}, TripR("a", 5, 0)>>, <<{"a"}, TripR("b", 2, 5)>> >>)

DriverRulesets == {EmptyRules, PreemptRules} \cup StripeRulesets

InitDriver ==
  /\ rules \in DriverRulesets
  /\ InitGodView
  /\ InitFrame

NextDriver == EvolveCall \/ EvolveIter \/ EvolveReturn

SpecDriver == InitDriver /\ [][NextDriver]_vars

(***************************************************************************)
(* The read-only queries, applied to the caller's current GodView.         *)
(***************************************************************************)
Returned(r, op) ==
  IF r.err # "none"
  THEN err' = r.err /\ out' = out
  ELSE err' = err /\ out' = [op |-> op, val |-> r.val]

QueryEvents ==
  /\ pc = "idle"
  /\ err = "none"
  /\ Returned(getNonPastEvents(GV), "getNonPastEvents")
  /\ UNCHANGED <<rules, now, chunks, past, pc, target, entry, calls>>

QueryNextTime ==
  /\ pc = "idle"
  /\ err = "none"
  /\ Returned(getNextInterestingTime(GV), "getNextInterestingTime")
  /\ UNCHANGED <<rules, now, chunks, past, pc, target, entry, calls>>

(***************************************************************************)
(* The empty universe: no rules, any normalized chunk list with boundaries *)
(* in 1..MaxBoundary, any finite clock up to MaxEmptyNow, and a past that  *)
(* is empty or one box that ended by now.                                  *)
(***************************************************************************)
MaxBoundary == 2
MaxEmptyNow == 3

ChunksOf(bounds, hist) ==
  [i \in 1..(Len(bounds) - 1) |-> ChunkR(bounds[i], bounds[i + 1], hist[i])]

RECURSIVE SortedSeq(_)
SortedSeq(S) ==
  IF S = {} THEN <<>> ELSE <<SetMin(S)>> \o SortedSeq(S \ {SetMin(S)})

NormalizedChunkLists ==
  LET flat(B) == <<0>> \o SortedSeq(B) \o <<Inf>>
  IN UNION {{ChunksOf(flat(B), hist) :
               hist \in {f \in [1..(Cardinality(B) + 1) -> Histories] :
                           \A i \in 1..Cardinality(B) : f[i] # f[i + 1]}} :
            B \in SUBSET (1..MaxBoundary)}

EmptyPasts(n) ==
  {<<>>} \cup {<<BoxR(EventR("a", 0, 0, 1), rf)>> : rf \in 1..n}

InitEmpty ==
  /\ rules = EmptyRules
  /\ now \in 0..MaxEmptyNow
  /\ chunks \in NormalizedChunkLists
  /\ past \in EmptyPasts(now)
  /\ InitFrame

NextEmpty ==
  Step \/ QueryEvents \/ QueryNextTime \/ EvolveCall \/ EvolveIter \/ EvolveReturn

SpecEmpty == InitEmpty /\ [][NextEmpty]_vars

(***************************************************************************)
(* The oracle on a one-rule universe: a single chunk [0, +inf) of empty    *)
(* history, the rule {} -> a(depart d, arrive v), any clock.               *)
(***************************************************************************)
OracleOffsets == (0 - NegOffset)..MaxNow

InitOracle ==
  /\ rules \in {StripeRules(d, v) : d \in OracleOffsets, v \in OracleOffsets}
  /\ now \in 0..MaxNow
  /\ chunks = InitialChunks
  /\ past = <<>>
  /\ InitFrame

NextOracle == QueryNextTime

SpecOracle == InitOracle /\ [][NextOracle]_vars

(***************************************************************************)
(* Properties of the step function, checked under Spec.                    *)
(***************************************************************************)
HistoryAt(cs, h) == cs[findChunk(cs, h)].history

\* C1: the chunk list of every GodView stepGodView returns is sorted by start,
\* starts at 0, ends at +infinity, has no gap and no overlap (each start is the
\* previous end) and no chunk of zero or negative length.
C1_PartitionInvariant ==
  /\ Len(chunks) >= 1
  /\ chunks[1].start = 0
  /\ chunks[Len(chunks)].end = Inf
  /\ \A i \in 1..Len(chunks) : chunks[i].start < chunks[i].end
  /\ \A i \in 1..(Len(chunks) - 1) :
       chunks[i + 1].start = chunks[i].end /\ chunks[i].start < chunks[i + 1].start

C1_Witness == now > 0 /\ now < Inf /\ Len(chunks) >= 4

\* C2 as claimed: no two adjacent chunks of a returned GodView have the same history.
C2_NoAdjacentEqualHistories ==
  \A i \in 1..(Len(chunks) - 1) : chunks[i].history # chunks[i + 1].history

DepartPointsOf(evs) == {evs.val[k].departH0 : k \in 1..Len(evs.val)}

DepartPoints(gv) == DepartPointsOf(getNonPastEvents(gv))

\* C2 as amended: two adjacent chunks of a returned GodView have the same history
\* only where their shared boundary is the departure point (departH0) of a non-past
\* event discoverable in that GodView; everywhere else chunks are maximal.
C2_AdjacentEqualOnlyAtDepartPoints ==
  \A i \in 1..(Len(chunks) - 1) :
    chunks[i].history = chunks[i + 1].history => chunks[i + 1].start \in DepartPoints(GV)

\* A returned state in which a merge was due (the arrival band of an earlier box
\* was extended by a later one) and a forced split is present.
C2_Witness ==
  /\ now > 0
  /\ \E i \in 1..(Len(chunks) - 1) : chunks[i].history = chunks[i + 1].history
  /\ \E i \in 1..Len(chunks) : chunks[i].history # {} /\ chunks[i].end - chunks[i].start >= 2

BoxErrors == {"box has zero or negative length", "supposedly-past event is actually in future"}

\* C3: every box in past covers a positive-length interval that lies in the past
\* (start.r0 < rf <= now), and no step is ever rejected by normalizeGodView for a
\* box that breaks this.
C3_PastConsistency ==
  /\ err \notin BoxErrors
  /\ \A i \in 1..Len(past) : past[i].start.r0 < past[i].rf /\ past[i].rf <= now

C3_Witness == Len(past) >= 2 /\ now < Inf

\* C4: a step never moves the clock backwards (and never makes it NaN).
C4_MonotonicClock == [][now' # NaN /\ now' >= now]_vars

C4_Witness == now > 0 /\ now < Inf /\ past # <<>>

\* C5: once the clock is +infinity, stepGodView returns the same now, chunks and past.
ReturnsSame(r, g) == r.err = "none" /\ Snapshot(r.val) = Snapshot(g)

C5_FixedPointAtInfinity == now = Inf => ReturnsSame(stepGodView(GV), GV)

C5_Witness == now = Inf /\ past # <<>>

NoError == err = "none"

(***************************************************************************)
(* Properties of the empty universe, checked under SpecEmpty.              *)
(***************************************************************************)
StepsToInfinityUnchanged(r, g) ==
  /\ r.err = "none"
  /\ r.val.now = Inf
  /\ r.val.chunks = g.chunks
  /\ r.val.past = g.past

EmptyQueriesQuiet ==
  /\ out.op = "getNonPastEvents" => out.val = <<>>
  /\ out.op = "getNextInterestingTime" => out.val = Inf
  /\ now # Inf => StepsToInfinityUnchanged(stepGodView(GV), GV)

\* C6 as claimed: in the empty universe, at any finite now, getNonPastEvents is
\* empty, getNextInterestingTime is +infinity, stepGodView returns now = +infinity
\* with chunks and past unchanged, and so does evolveUntil for any target.
C6_EmptyUniverseAnyTarget ==
  /\ EmptyQueriesQuiet
  /\ out.op = "evolveUntil" =>
       now = Inf /\ chunks = entry.chunks /\ past = entry.past

\* C6 as amended: the same, except that evolveUntil returns now = +infinity only
\* for a target above the clock it is entered with; for a target at or below that
\* clock it returns its argument unchanged (the finite now included).
C6_EmptyUniverse ==
  /\ EmptyQueriesQuiet
  /\ out.op = "evolveUntil" =>
       /\ chunks = entry.chunks
       /\ past = entry.past
       /\ entry.now < target => now = Inf
       /\ entry.now >= target => now = entry.now

C6_Witness ==
  /\ out.op = "evolveUntil"
  /\ entry.now # Inf
  /\ entry.now < target
  /\ now = Inf
  /\ Len(chunks) >= 2
  /\ past # <<>>

(***************************************************************************)
(* Properties of the driver, checked under SpecDriver.                     *)
(***************************************************************************)
InitialSnapshot == [now |-> 0, chunks |-> InitialChunks, past |-> <<>>]

\* evolveUntil has just returned from a call on the initial GodView.
ReturnedFromInitial == out.op = "evolveUntil" /\ entry = InitialSnapshot

StripeD == rules[{}][1].depart

StripeG == rules[{}][1].depart - rules[{}][1].arrive

StripeCount(d, g, R) == IF R <= d THEN 0 ELSE ((R - d - 1) \div (2 * g)) + 1

StripeBoxes(d, g, R) ==
  [k \in 1..StripeCount(d, g, R) |->
     BoxR(EventR("a", d + 2 * g * (k - 1), 2 * g * (k - 1), 2 * g * (k - 1) + g),
          d + 2 * g * (k - 1) + g)]

StripesExample ==
  << BoxR(EventR("a", 3, 0, 2), 5), BoxR(EventR("a", 7, 4, 6), 9),
     BoxR(EventR("a", 11, 8, 10), 13), BoxR(EventR("a", 15, 12, 14), 17),
     BoxR(EventR("a", 19, 16, 18), 21) >>

StripesPast ==
  /\ past = StripeBoxes(StripeD, StripeG, target)
  /\ (rules = StripeRules(3, 1) /\ target = 20) => past = StripesExample /\ now = 21

\* C7 as claimed: for the single rule {} -> a(d, v), d >= 0, v < d, g = d - v,
\* evolveUntil(R, initial) yields exactly the boxes k >= 0 with d + 2gk < R, with
\* r0 = d + 2gk, departH0 = 2gk, arriveH0 = 2gk + g, rf = r0 + g, and the last
\* box's rf is the final now.
C7_StripesLastBoxEndsAtNow ==
  (ReturnedFromInitial /\ rules \in StripeRulesets) =>
    /\ StripesPast
    /\ past # <<>> => past[Len(past)].rf = now

\* C7 as amended: the same boxes; the last box's rf is the final now exactly when
\* R <= that rf (the run ended on a departure step), and otherwise the final now is
\* the next departure time, rf + g.  For d = 3, v = 1, R = 20 the five boxes are as
\* claimed and the final now is 21.
C7_Stripes ==
  (ReturnedFromInitial /\ rules \in StripeRulesets) =>
    /\ StripesPast
    /\ past # <<>> =>
         /\ target <= past[Len(past)].rf => now = past[Len(past)].rf
         /\ target > past[Len(past)].rf => now = past[Len(past)].rf + StripeG

C7_Witness ==
  /\ ReturnedFromInitial
  /\ rules = StripeRules(3, 1)
  /\ target = 20
  /\ Len(past) = 5
  /\ past[5].rf = now

PreemptExample ==
  << BoxR(EventR("a", 5, 0, 5), 7), BoxR(EventR("b", 7, 5, 2), 9),
     BoxR(EventR("a", 9, 4, 9), 10) >>

\* C8: for {} -> a(5, 0), {a} -> b(2, 5), evolveUntil(15, initial) yields a past
\* whose first three boxes are a over [5,7), b over [7,9), a over [9,10) (departH0
\* 4, arriveH0 9): the departure of a due at hypertime 2 at real time 7, where b
\* arrives, is not logged and extends no earlier box.
C8_Preemption ==
  (ReturnedFromInitial /\ rules = PreemptRules /\ target = 15) =>
    /\ Len(past) >= 3
    /\ SubSeq(past, 1, 3) = PreemptExample

RECURSIVE stepTimes(_, _)
stepTimes(g, k) == IF k = 0 THEN g ELSE stepGodView(stepTimes(g, k - 1)).val

EntryGV == GodViewR(rules, entry.now, entry.chunks, entry.past)

\* C10: evolveUntil steps only a state with now < target and now finite; it returns
\* the first GodView of gv, step(gv), step(step(gv)), ... whose now is >= target or
\* +infinity; entered with now >= target it returns gv without stepping.
C10_DriverReturnsFirst ==
  out.op = "evolveUntil" =>
    /\ Snapshot(GV) = Snapshot(stepTimes(EntryGV, calls))
    /\ now >= target \/ now = Inf
    /\ \A k \in 0..(calls - 1) :
         evolveUntilContinues(stepTimes(EntryGV, k), target)
    /\ entry.now >= target => calls = 0 /\ Snapshot(GV) = entry

C10_DriverPostcondition ==
  /\ []C10_DriverReturnsFirst
  /\ [][calls' = calls + 1 => (now < target /\ now # Inf)]_vars

C10_Witness ==
  /\ out.op = "evolveUntil"
  /\ calls >= 3
  /\ entry.now > 0
  /\ now > target
  /\ now # Inf

(***************************************************************************)
(* Properties of the oracle on a one-rule universe, under SpecOracle.      *)
(***************************************************************************)
OracleD == rules[{}][1].depart

OracleV == rules[{}][1].arrive

\* C9: with the single chunk [0, +inf) of empty history and the single rule
\* {} -> a(d, v), getNextInterestingTime is d when d > now, now + |d - v| when
\* d = now and v # d, and +infinity when d < now.
C9_OneRuleOracle ==
  out.op = "getNextInterestingTime" =>
    /\ OracleD > now => out.val = OracleD
    /\ (OracleD = now /\ OracleV # OracleD) => out.val = now + Abs(OracleD - OracleV)
    /\ OracleD < now => out.val = Inf
    /\ (now = 5 /\ OracleD = 8 /\ OracleV = 6) => out.val = 8
    /\ (now = 5 /\ OracleD = 5 /\ OracleV = 7) => out.val = 7
    /\ (now = 5 /\ OracleD = 5 /\ OracleV = 3) => out.val = 7

C9_Witness ==
  /\ out.op = "getNextInterestingTime"
  /\ now = 5
  /\ OracleD = 5
  /\ OracleV = 3
  /\ out.val = 7

(***************************************************************************)
(* Event discovery and the oracle as pure functions: any ruleset with      *)
(* offsets in EventOffsets, any normalized chunk list, any clock up to     *)
(* MaxEmptyNow.                                                            *)
(***************************************************************************)
EvMaxOffset == 1

EventOffsets == (0 - NegOffset)..EvMaxOffset

InitEvents ==
  /\ rules \in RulesetsOver(EventOffsets)
  /\ now \in 0..MaxEmptyNow
  /\ chunks \in NormalizedChunkLists
  /\ past = <<>>
  /\ InitFrame

NextEvents == QueryEvents \/ QueryNextTime

SpecEvents == InitEvents /\ [][NextEvents]_vars

\* <<i, k>>: chunk i and the k-th trip listed under exactly that chunk's history.
TripSlots == {<<i, k>> : i \in 1..Len(chunks), k \in 1..Cardinality(TripIds)}

PrimaryTrip(s) == rules[chunks[s[1]].history][s[2]]

PrimaryR0(s) == chunks[s[1]].start + PrimaryTrip(s).depart

PrimaryArriveH0(s) == PrimaryR0(s) - PrimaryTrip(s).arrive

ListedSlots == {s \in TripSlots : s[2] <= Len(rules[chunks[s[1]].history])}

PrimarySlots == {s \in ListedSlots : PrimaryR0(s) >= now}

PrimaryEvent(s) ==
  EventR(PrimaryTrip(s).id, PrimaryR0(s), chunks[s[1]].start, PrimaryArriveH0(s))

PrimaryEvents == {PrimaryEvent(s) : s \in PrimarySlots}

Occurrences(seq, e) == Cardinality({n \in 1..Len(seq) : seq[n] = e})

\* the key of the chained lookup: history at the arrival hypertime plus the traveler
ArrivalKey(s) == HistoryAt(chunks, PrimaryArriveH0(s)) \cup {PrimaryTrip(s).id}

ChainingSlots == {s \in PrimarySlots : PrimaryR0(s) = now /\ PrimaryArriveH0(s) >= 0}

ChainedR0(s, k2) == PrimaryArriveH0(s) + rules[ArrivalKey(s)][k2].depart

ChainedSlots ==
  {c \in ChainingSlots \X (1..Cardinality(TripIds)) :
     /\ c[2] <= Len(rules[ArrivalKey(c[1])])
     /\ ChainedR0(c[1], c[2]) > now}

ChainedEventOf(c) ==
  EventR(rules[ArrivalKey(c[1])][c[2]].id, ChainedR0(c[1], c[2]),
         chunks[c[1][1]].start,
         ChainedR0(c[1], c[2]) - rules[ArrivalKey(c[1])][c[2]].arrive)

ChainedEventSet == {ChainedEventOf(c) : c \in ChainedSlots}

\* C11: getNonPastEvents returns one event (T.id, r0, C.start, r0 - T.arrive) for
\* every chunk C and trip T listed under exactly C.history with r0 >= now, no event
\* with r0 < now, and nothing but these and the chained-lookahead events.
C11_PrimaryDiscovery ==
  out.op = "getNonPastEvents" =>
    /\ PrimaryEvents \subseteq Range(out.val)
    /\ \A e \in Range(out.val) : e.r0 >= now
    /\ \A e \in Range(out.val) \ ChainedEventSet :
         /\ e \in PrimaryEvents
         /\ Occurrences(out.val, e) = Cardinality({s \in PrimarySlots : PrimaryEvent(s) = e})

\* A primary event returned, a listed trip skipped as past, and a trip listed
\* under a key that is no chunk's history.
C11_Witness ==
  /\ out.op = "getNonPastEvents"
  /\ out.val # <<>>
  /\ PrimarySlots # {}
  /\ ListedSlots # PrimarySlots
  /\ \E h \in Histories :
       rules[h] # <<>> /\ \A i \in 1..Len(chunks) : chunks[i].history # h

(***************************************************************************)
(* normalizeChunks as a pure function: any list of at most MaxChunks       *)
(* chunks with starts in 0..MaxStart (each empty, one unit long or         *)
(* unbounded), in any order, valid or not, and any noJoinAt set of at most *)
(* two hypertimes (the empty set stands for the omitted argument).  The    *)
(* caller keeps the list (chunks), the argument of the call (entry) and    *)
(* the returned list (out); a throw is recorded in err.                    *)
(***************************************************************************)
MaxStart == 2
MaxChunks == 3

ChunkHistories == {{}, {"a"}}

ChunkEnds(s) == {s, s + 1, Inf}

AnyChunks ==
  {ChunkR(s, e, h) : s \in 0..MaxStart, e \in 1..(MaxStart + 1) \cup {Inf}, h \in ChunkHistories}

ChunkChoices == {c \in AnyChunks : c.end \in ChunkEnds(c.start)}

ChunkInputs == UNION {[1..n -> ChunkChoices] : n \in 0..MaxChunks}

NoJoinSets == {S \in SUBSET (1..(MaxStart + 1)) : Cardinality(S) <= 2}

InitChunks ==
  /\ rules = EmptyRules
  /\ now = 0
  /\ chunks \in ChunkInputs
  /\ past = <<>>
  /\ InitFrame

NormalizeReturned(r, noJoinAt) ==
  /\ Returned(r, "normalizeChunks")
  /\ entry' = [chunks |-> chunks, noJoinAt |-> noJoinAt]

NormalizeCall ==
  /\ pc = "idle"
  /\ err = "none"
  /\ out.op = "none"
  /\ \E noJoinAt \in NoJoinSets : NormalizeReturned(normalizeChunks(chunks, noJoinAt), noJoinAt)
  /\ UNCHANGED <<rules, now, chunks, past, pc, target, calls>>

NextChunks == NormalizeCall

SpecChunks == InitChunks /\ [][NextChunks]_vars

\* the chunk that is last once the list is sorted by start (ties keep list order)
LastByStart(cs) ==
  cs[CHOOSE i \in 1..Len(cs) :
       \A j \in 1..Len(cs) :
         cs[j].start < cs[i].start \/ (cs[j].start = cs[i].start /\ j <= i)]

InvalidChunks(cs) ==
  \/ cs = <<>>
  \/ \A i \in 1..Len(cs) : cs[i].start # 0
  \/ LastByStart(cs).end # Inf
  \/ \E i \in 1..Len(cs) : cs[i].start >= cs[i].end

\* C12: normalizeChunks throws, and returns no list, when its input is empty, or
\* (sorted by start) does not start at 0, or does not end at +infinity, or has a
\* chunk with start >= end.
C12_InvalidChunksRejected ==
  [][InvalidChunks(chunks) => (err' # "none" /\ out'.op = "none" /\ chunks' = chunks)]_vars

\* A list that starts at 0 and ends at +infinity was rejected for an empty chunk.
C12_Witness ==
  /\ err = "chunks have zero or negative length"
  /\ Len(chunks) = MaxChunks
  /\ out.op = "none"

\* normalizeChunks returned a list: no check of it failed, the gap check included.
Accepted == out.op = "normalizeChunks"

Hypertimes == 0..(MaxStart + 2)

SameHistories(cs1, cs2) == \A h \in Hypertimes : HistoryAt(cs1, h) = HistoryAt(cs2, h)

StartsOf(cs) == {cs[i].start : i \in 1..Len(cs)}

\* C13: for every accepted input, in any order, normalizeChunks without noJoinAt
\* returns a list sorted by start with no two adjacent chunks of equal history,
\* giving every hypertime the history the input gave it; normalizing the output
\* again returns it unchanged.
C13_CanonicalForm ==
  (Accepted /\ entry.noJoinAt = {}) =>
    /\ \A i \in 1..(Len(out.val) - 1) :
         /\ out.val[i].start < out.val[i + 1].start
         /\ out.val[i].history # out.val[i + 1].history
    /\ SameHistories(out.val, entry.chunks)
    /\ normalizeChunks(out.val, {}) = Ok(out.val)

\* An out-of-order list of three chunks had two of them merged.
C13_Witness ==
  /\ Accepted
  /\ entry.noJoinAt = {}
  /\ Len(entry.chunks) = 3
  /\ entry.chunks[1].start # 0
  /\ Len(out.val) = 2

\* the boundaries of the input that survive: histories differ across them, or
\* they are in noJoinAt
KeptBoundaries(cs, noJoinAt) ==
  {b \in StartsOf(cs) \ {0} :
     HistoryAt(cs, b - 1) # HistoryAt(cs, b) \/ b \in noJoinAt}

\* C19: for an accepted input and a set noJoinAt, two adjacent equal-history
\* chunks stay separate exactly when their shared boundary is in noJoinAt and are
\* merged otherwise; a value of noJoinAt that is no boundary of the input creates
\* none; chunks of different histories are never merged.
C19_ForcedSplits ==
  Accepted =>
    /\ StartsOf(out.val) = {0} \cup KeptBoundaries(entry.chunks, entry.noJoinAt)
    /\ Len(out.val) = Cardinality(StartsOf(out.val))
    /\ \A i \in 1..(Len(out.val) - 1) : out.val[i].end = out.val[i + 1].start
    /\ out.val[Len(out.val)].end = Inf
    /\ SameHistories(out.val, entry.chunks)

\* Three equal-history chunks, one boundary forced and kept, one merged away, and
\* a value of noJoinAt inside the last chunk.
C19_Witness ==
  /\ Accepted
  /\ Len(entry.chunks) = 3
  /\ Len(out.val) = 2
  /\ out.val[1].history = out.val[2].history
  /\ \E x \in entry.noJoinAt : x \notin StartsOf(entry.chunks)

KeysOf(id) == {h \in Histories : \E k \in 1..Len(rules[h]) : rules[h][k].id = id}

\* the event left from the start of a chunk of cs whose history is a key of its trip
FiredExactly(e, cs) ==
  \E i \in 1..Len(cs) : cs[i].start = e.departH0 /\ cs[i].history \in KeysOf(e.tripId)

StartEventsOf(boxes) == {boxes[i].start : i \in 1..Len(boxes)}

ImmediateOf(gv, evs) == Range(immediateEvents(gv, evs.val))

LoggedBy(gvn) == ImmediateOf(gvn.val, getNonPastEvents(gvn.val))

AllFiredExactly(gvn, logged) == \A e \in logged : FiredExactly(e, gvn.val.chunks)

\* C15: every box a step logs for trip T has departH0 equal to the start of a
\* chunk of the normalized pre-step state whose history is exactly the key under
\* which T is listed, never a strict superset or subset of it.
C15_ExactMatchFiring ==
  /\ []AllFiredExactly(normalizeGodView(GV), LoggedBy(normalizeGodView(GV)))
  /\ [][\A e \in StartEventsOf(past') \ StartEventsOf(past) :
          FiredExactly(e, normalizeGodView(GV).val.chunks)]_vars

\* Trip b, listed under the key {a}, has been logged, and a chunk with the
\* strict superset {a, b} of that key exists.
C15_Witness ==
  /\ now # Inf
  /\ KeysOf("b") = {{"a"}}
  /\ \E i \in 1..Len(past) : past[i].start.tripId = "b"
  /\ \E i \in 1..Len(chunks) : chunks[i].history = {"a", "b"}
  /\ \E i \in 1..Len(chunks) : chunks[i].history = {}

(***************************************************************************)
(* The time-domain conversions as pure functions: the caller holds a time  *)
(* x (a hypertime or a real time) and a calendar offset c (entry), converts *)
(* there and back, and keeps the result (out).                             *)
(***************************************************************************)
MaxConv == 6

ConvRange == (0 - MaxConv)..MaxConv

InitConv ==
  /\ rules = EmptyRules
  /\ InitGodView
  /\ err = "none"
  /\ pc = "idle"
  /\ target = 0
  /\ calls = 0
  /\ out = NoOut
  /\ entry \in [x : ConvRange, c : ConvRange]

RoundTripH ==
  /\ pc = "idle"
  /\ out' = [op |-> "rc2ht.hc2rt", val |-> rc2ht(hc2rt(entry.x, entry.c), entry.c)]
  /\ UNCHANGED <<rules, now, chunks, past, err, pc, target, entry, calls>>

RoundTripR ==
  /\ pc = "idle"
  /\ out' = [op |-> "hc2rt.rc2ht", val |-> hc2rt(rc2ht(entry.x, entry.c), entry.c)]
  /\ UNCHANGED <<rules, now, chunks, past, err, pc, target, entry, calls>>

NextConv == RoundTripH \/ RoundTripR

SpecConv == InitConv /\ [][NextConv]_vars

\* C16: for bounded integers h, r, c: rc2ht(hc2rt(h, c), c) = h and
\* hc2rt(rc2ht(r, c), c) = r.
C16_ConversionRoundTrip ==
  /\ out.op = "rc2ht.hc2rt" => out.val = entry.x
  /\ out.op = "hc2rt.rc2ht" => out.val = entry.x

C16_Witness ==
  /\ out.op = "rc2ht.hc2rt"
  /\ entry.x > 0
  /\ entry.c < 0
  /\ out.val = entry.x

(***************************************************************************)
(* The oracle on any GodView, checked under SpecEvents.                    *)
(***************************************************************************)
Discovered(evs) == Range(evs.val)

\* |h| below the universe, otherwise the distance from h to the end of its chunk
DistanceToChunkEnd(h) ==
  IF h < 0 THEN 0 - h
  ELSE IF chunks[findChunk(chunks, h)].end = Inf THEN Inf
  ELSE chunks[findChunk(chunks, h)].end - h

AtClock(d) == IF d = Inf THEN Inf ELSE now + d

FutureCandidates(evs) == {e.r0 : e \in {x \in evs : x.r0 > now}}

ChunkEndCandidates(evs) ==
  UNION {{AtClock(DistanceToChunkEnd(e.departH0)), AtClock(DistanceToChunkEnd(e.arriveH0))} :
           e \in {x \in evs : x.r0 = now}}

CatchUpCandidates(evs) ==
  {now + (p[2].arriveH0 - p[1].departH0) :
     p \in {q \in evs \X evs :
              q[1].r0 = now /\ q[2].r0 = now /\ q[2].arriveH0 > q[1].departH0}}

MinimumOf(S) == IF S = {} THEN Inf ELSE CHOOSE x \in S : \A y \in S : x <= y

OracleValue(evs) ==
  MinimumOf(FutureCandidates(evs) \cup ChunkEndCandidates(evs) \cup CatchUpCandidates(evs))

\* C17: getNextInterestingTime is the minimum (+infinity when there is none) of
\* e.r0 for every discovered event with r0 > now and, for every discovered event E
\* with r0 = now, now + timeUntilChunkEnd(E.departH0), now + timeUntilChunkEnd(
\* E.arriveH0) and now + (E2.arriveH0 - E.departH0) for every discovered E2 with
\* r0 = now and E2.arriveH0 > E.departH0.
C17_OracleMinimum ==
  out.op = "getNextInterestingTime" =>
    out.val = OracleValue(Discovered(getNonPastEvents(GV)))

FiniteNotIn(v, evs) ==
  /\ v # Inf
  /\ v \notin FutureCandidates(evs) \cup ChunkEndCandidates(evs)
  /\ FutureCandidates(evs) # {}
  /\ Cardinality({x \in evs : x.r0 = now}) >= 2

\* The oracle returned a catch-up time that is neither a future departure nor a
\* chunk-end time, with two immediate events and a future one discovered.
C17_Witness ==
  /\ out.op = "getNextInterestingTime"
  /\ FiniteNotIn(out.val, Discovered(getNonPastEvents(GV)))

(***************************************************************************)
(* Chained lookahead, checked under SpecEvents.                            *)
(***************************************************************************)
\* C18: for every primary event of trip T from chunk C with r0 = now and
\* arriveH0 >= 0 and every trip T2 listed under (history at arriveH0) + {T.id}
\* with r0' = arriveH0 + T2.depart > now, getNonPastEvents also returns
\* (T2.id, r0', C.start, r0' - T2.arrive); it returns no other event besides the
\* primary ones (one level of chaining only), so every chained event has r0 > now.
C18_ChainedLookahead ==
  out.op = "getNonPastEvents" =>
    /\ ChainedEventSet \subseteq Range(out.val)
    /\ Range(out.val) \ PrimaryEvents \subseteq ChainedEventSet
    /\ Len(out.val) = Cardinality(PrimarySlots) + Cardinality(ChainedSlots)
    /\ \A e \in Range(out.val) \ PrimaryEvents : e.r0 > now

\* A chained event was returned whose departH0 (the original chunk's start)
\* differs from the hypertime its first leg arrives at, next to a primary event
\* with r0 = now that arrives below the universe and so chains nothing.
C18_Witness ==
  /\ out.op = "getNonPastEvents"
  /\ \E c \in ChainedSlots :
       /\ chunks[c[1][1]].start # PrimaryArriveH0(c[1])
       /\ ChainedEventOf(c) \notin PrimaryEvents
  /\ \E s \in PrimarySlots : PrimaryR0(s) = now /\ PrimaryArriveH0(s) < 0

(***************************************************************************)
(* evolveChunks as a pure function: any normalized chunk list, one or two  *)
(* events sharing r0 = now (entry.events) and a step width dt (entry.dt).  *)
(***************************************************************************)
MaxDt == 2

DtValues == (1..MaxDt) \cup {Inf}

BandEvents ==
  {EventR(id, 0, d, a) :
     id \in TripIds, d \in 0..MaxBoundary, a \in (0 - NegOffset)..MaxBoundary}

BandEventLists == {<<e>> : e \in BandEvents} \cup {<<e1, e2>> : e1 \in BandEvents, e2 \in BandEvents}

\* the normalized chunk lists with boundaries in 1..MaxBoundary, histories {} or {a}
BandChunkLists ==
  {cs \in NormalizedChunkLists : \A i \in 1..Len(cs) : cs[i].history \in ChunkHistories}

InitEvolve ==
  /\ rules = EmptyRules
  /\ now = 0
  /\ chunks \in BandChunkLists
  /\ past = <<>>
  /\ err = "none"
  /\ pc = "idle"
  /\ target = 0
  /\ calls = 0
  /\ out = NoOut
  /\ entry \in [events : BandEventLists, dt : DtValues]

EvolveChunksCall ==
  /\ pc = "idle"
  /\ err = "none"
  /\ out.op = "none"
  /\ Returned(evolveChunks(chunks, entry.events, entry.dt), "evolveChunks")
  /\ UNCHANGED <<rules, now, chunks, past, pc, target, entry, calls>>

NextEvolve == EvolveChunksCall

SpecEvolve == InitEvolve /\ [][NextEvolve]_vars

BandPoints == 0..(MaxBoundary + MaxDt + 2)

Covering(cs, x) == {i \in 1..Len(cs) : cs[i].start <= x /\ x < cs[i].end}

InBand(h0, dt, x) == h0 <= x /\ (dt = Inf \/ x < h0 + dt)

\* the travelers whose arrival band, within the input chunk of x, covers x
ArrivingAt(cs, events, dt, x) ==
  {e.tripId : e \in {y \in Range(events) :
                        /\ y.arriveH0 >= 0
                        /\ findChunk(cs, y.arriveH0) = findChunk(cs, x)
                        /\ InBand(y.arriveH0, dt, x)}}

\* C20: for a valid chunk list, a non-empty list of events sharing one r0 and
\* dt > 0, evolveChunks returns chunks in which the history at x is the input
\* history at x united with the trip ids of the events whose arriveH0 lies in the
\* same input chunk as x with arriveH0 <= x < arriveH0 + dt; outside every such
\* band the history is the old one.
C20_ArrivalBands ==
  out.op = "evolveChunks" =>
    \A x \in BandPoints :
      /\ Cardinality(Covering(out.val, x)) = 1
      /\ HistoryAt(out.val, x) =
           HistoryAt(chunks, x) \cup ArrivingAt(chunks, entry.events, entry.dt, x)

\* Two events with different travelers, both bands covering one hypertime, and
\* one band cut off at the end of its chunk.
C20_Witness ==
  /\ out.op = "evolveChunks"
  /\ Len(entry.events) = 2
  /\ entry.events[1].tripId # entry.events[2].tripId
  /\ entry.dt = MaxDt
  /\ \E k \in 1..2 :
       /\ entry.events[k].arriveH0 >= 0
       /\ chunks[findChunk(chunks, entry.events[k].arriveH0)].end < entry.events[k].arriveH0 + entry.dt
  /\ \E x \in BandPoints : Cardinality(ArrivingAt(chunks, entry.events, entry.dt, x)) = 2
  /\ Len(out.val) > Len(chunks) + 1

(***************************************************************************)
(* The departure pass of evolveChunks, checked under SpecEvolve against    *)
(* the arrival pass alone.                                                 *)
(***************************************************************************)
\* the chunks as the arrival pass leaves them, before any departure band is split
afterArrivals(cs, events, dt) ==
  Concat([i \in 1..Len(cs) |-> splitArrivals(<<cs[i]>>, arrivalsIn(cs[i], events), 1, dt)])

\* b is departH0 or departH0 + dt of an event, inside the input chunk holding departH0
DepartureCut(cs, events, dt, b) ==
  \E e \in Range(events) :
    /\ b \in {e.departH0, Plus(e.departH0, dt)}
    /\ cs[findChunk(cs, e.departH0)].start <= b
    /\ b < cs[findChunk(cs, e.departH0)].end

DepartureBandsOf(res, base, cs, events, dt) ==
  /\ \A i \in 1..Len(res) : res[i].start < res[i].end
  /\ \A x \in BandPoints :
       /\ Cardinality(Covering(res, x)) = 1
       /\ HistoryAt(res, x) = HistoryAt(base, x)
  /\ \A i \in 1..Len(res) : res[i].start >= 0
  /\ \E i \in 1..Len(res) : res[i].end = Inf
  /\ \A b \in StartsOf(res) \ StartsOf(base) : DepartureCut(cs, events, dt, b)

\* C21: the departure pass of evolveChunks changes no history: the history at
\* every hypertime is the one the arrival pass alone gives, the returned chunks
\* cover the hypertimes of the input exactly once with no zero-length chunk, and
\* the only boundaries it adds are departH0 and departH0 + dt of an event, inside
\* the input chunk that contains departH0.
C21_DepartureBands ==
  out.op = "evolveChunks" =>
    DepartureBandsOf(out.val, afterArrivals(chunks, entry.events, entry.dt),
                     chunks, entry.events, entry.dt)

\* A departure strictly inside a chunk whose band ends before the chunk does, the
\* traveler arriving before hypertime 0: both cuts are new and no history changes.
C21_Witness ==
  /\ out.op = "evolveChunks"
  /\ Len(entry.events) = 1
  /\ entry.events[1].arriveH0 < 0
  /\ entry.dt # Inf
  /\ chunks[findChunk(chunks, entry.events[1].departH0)].start < entry.events[1].departH0
  /\ entry.events[1].departH0 + entry.dt < chunks[findChunk(chunks, entry.events[1].departH0)].end
  /\ Len(out.val) = Len(chunks) + 2

RecordsEvent(e, j) ==
  /\ past'[j].rf = now'
  /\ \/ past'[j].start = e
     \/ /\ j <= Len(past)
        /\ past[j].rf = now
        /\ past[j].start.tripId = e.tripId
        /\ past'[j].start = past[j].start

LogsExactly(imm) ==
  /\ \A e \in imm : \E j \in 1..Len(past') : RecordsEvent(e, j)
  /\ \A j \in 1..Len(past') :
       (j > Len(past) \/ past'[j] # past[j]) =>
         /\ past'[j].rf = now'
         /\ j > Len(past) => (past'[j].start \in imm /\ past'[j].start.r0 = now)
         /\ j <= Len(past) => \E e \in imm : RecordsEvent(e, j)

ImmediateList(gvn) == immediateEvents(gvn.val, getNonPastEvents(gvn.val).val)

\* the immediate events whose departH0 is the arriveH0 of another immediate event
PreemptedByAnother(imm) ==
  {e \in Range(imm) : \E e2 \in Range(imm) : e2 # e /\ e2.arriveH0 = e.departH0}

FilterDropsExactly(imm) ==
  Range(evolvedEvents(imm)) = Range(imm) \ PreemptedByAnother(imm)

\* C23: an immediate event is left out of the events passed to evolveChunks if and
\* only if some other immediate event arrives at its departH0; an event whose own
\* arriveH0 equals its own departH0, with no other coinciding event, is evolved.
C23_CoincidenceFilter ==
  (err = "none" /\ normalizeGodView(GV).err = "none") =>
    FilterDropsExactly(ImmediateList(normalizeGodView(GV)))

(***************************************************************************)
(* Absence of thrown errors, checked under Spec.                           *)
(***************************************************************************)
\* C24: from the initial GodView no stepGodView call fails: no step taken so far
\* has thrown, and the step from the GodView reached throws neither 'no chunk
\* contains', nor a chunk validation error, nor 'multiple r0s', nor a box error.
C24_NoInvariantError ==
  /\ err = "none"
  /\ stepGodView(GV).err = "none"

\* Several steps in: a split hypertime line, boxes of travelers that landed at a
\* hypertime >= 0 and of travelers that left for a negative one.
C24_Witness ==
  /\ now # Inf
  /\ Len(chunks) >= 3
  /\ \E i \in 1..Len(past), j \in 1..Len(past) :
       past[i].start.arriveH0 >= 0 /\ past[j].start.arriveH0 < 0

(***************************************************************************)
(* Progress of the clock, checked under SpecEvents on every normalized     *)
(* chunk list.                                                             *)
(***************************************************************************)
StepAdvances(r) == r.err = "none" /\ r.val.now # NaN /\ r.val.now > now

\* C25: for a GodView with a valid chunk list and a finite now,
\* getNextInterestingTime(gv) is strictly greater than gv.now (+Infinity when
\* there is no candidate), so the step from it has dt > 0 and returns a strictly
\* later now.
C25_StrictProgress ==
  out.op = "getNextInterestingTime" =>
    /\ out.val # NaN
    /\ out.val > now
    /\ StepAdvances(stepGodView(GV))

\* A finite answer one unit ahead of a positive clock, with an immediate event
\* whose traveler arrives at a hypertime >= 0 and a departure already past.
C25_Witness ==
  /\ out.op = "getNextInterestingTime"
  /\ now > 0
  /\ out.val = now + 1
  /\ \E s \in PrimarySlots : PrimaryR0(s) = now /\ PrimaryArriveH0(s) >= 0
  /\ \E s \in ListedSlots : PrimaryR0(s) < now

(***************************************************************************)
(* Termination of evolveUntil: the loop body and the return are taken      *)
(* whenever they stay enabled (a running call keeps executing).            *)
(***************************************************************************)
\* the guard of EvolveIter: the states in which a loop iteration can be taken
EvolveIterEnabled == pc = "loop" /\ err = "none" /\ evolveUntilContinues(GV, target)

\* Weak fairness of the return and of the loop iteration; the latter is written
\* out as []<>~ENABLED \/ []<><<A>>_vars with the guard of EvolveIter for ENABLED.
SpecDriverFair ==
  /\ SpecDriver
  /\ WF_vars(EvolveReturn)
  /\ ([]<>(~EvolveIterEnabled) \/ []<><<EvolveIter>>_vars)

\* with integer offsets every step advances the clock by at least 1
StepsBoundedByTarget == calls = 0 \/ entry.now + calls <= target

\* C26: for a finite target and a ruleset with integer offsets, every call of
\* evolveUntil returns, with now >= target or now = +infinity, after at most
\* target - (entry now) steps: no run stays in the loop forever.
C26_DriverTerminates ==
  /\ []StepsBoundedByTarget
  /\ (pc = "loop") ~> (pc = "idle" /\ out.op = "evolveUntil" /\ (now >= target \/ now = Inf))

\* A call from the initial GodView that returned at a finite now after four or
\* more steps.
C26_Witness ==
  /\ ReturnedFromInitial
  /\ calls >= 4
  /\ now # Inf
  /\ target > 0

(***************************************************************************)
(* Boxes against histories, checked under Spec.                            *)
(***************************************************************************)
LandingPoints == 0..(MaxNow + MaxOffset + 2)

\* the traveler of e is in the history of cs at every point of [arriveH0, arriveH0 + dt)
LandedIn(cs, e, dt) ==
  \A x \in LandingPoints : InBand(e.arriveH0, dt, x) => e.tripId \in HistoryAt(cs, x)

\* C27: whenever a step logs a Box for an event e with e.arriveH0 >= 0, every
\* hypertime of [e.arriveH0, e.arriveH0 + dt) has, in the returned chunks, a
\* history containing e.tripId.
C27_LoggedTripsLanded ==
  [][err' = "none" =>
       \A e \in LoggedBy(normalizeGodView(GV)) :
         e.arriveH0 >= 0 => LandedIn(chunks', e, Minus(now', now))]_vars

\* box b is a Box of trip id whose arrival band [arriveH0, arriveH0 + (rf - r0)) holds x
AccountsFor(b, id, x) ==
  /\ b.start.tripId = id
  /\ InBand(b.start.arriveH0, Minus(b.rf, b.start.r0), x)

\* C28: in every state reachable from the initial GodView, for every hypertime x
\* and every trip id in the history at x, past contains a Box of that trip whose
\* arrival band [arriveH0, arriveH0 + (rf - r0)) contains x.
C28_TravelersAccountedFor ==
  \A x \in LandingPoints :
    \A id \in HistoryAt(chunks, x) :
      \E i \in 1..Len(past) : AccountsFor(past[i], id, x)

\* Two travelers share a hypertime, a later hypertime holds nobody, and one Box
\* has been extended over two steps or more.
C28_Witness ==
  /\ now # Inf
  /\ \E x \in LandingPoints, y \in LandingPoints :
       x < y /\ HistoryAt(chunks, x) = {"a", "b"} /\ HistoryAt(chunks, y) = {}
  /\ \E i \in 1..Len(past) :
       past[i].start.arriveH0 >= 0 /\ past[i].rf - past[i].start.r0 >= 2

\* C29: for every step and every hypertime x >= 0, the history at x in the returned
\* GodView is a superset of the history at x in the input GodView: no step removes a
\* trip id from the history of any hypertime.
C29_HistoriesOnlyGrow ==
  [][\A x \in LandingPoints : HistoryAt(chunks, x) \subseteq HistoryAt(chunks', x)]_vars

\* Histories of zero, one and two travelers side by side at a finite clock: a
\* chunk that already held a traveler has been split by a later band.
C29_Witness ==
  /\ now # Inf
  /\ Len(past) >= 3
  /\ \E i \in 1..Len(chunks), j \in 1..Len(chunks), k \in 1..Len(chunks) :
       /\ chunks[i].history = {"a", "b"}
       /\ Cardinality(chunks[j].history) = 1
       /\ chunks[k].history = {}
       /\ chunks[k].end # Inf

\* the trips listed anywhere in the ruleset
TripsOf(rs) == UNION {Range(rs[h]) : h \in Histories}

FollowsRule(ev, trip) ==
  /\ ev.tripId = trip.id
  /\ ev.r0 = ev.departH0 + trip.depart
  /\ ev.arriveH0 = ev.r0 - trip.arrive

\* C30: in every reachable state, every Box of a trip T (trip ids unique in the
\* ruleset) has start.r0 = start.departH0 + T.depart and start.arriveH0 =
\* start.r0 - T.arrive, also when later Boxes have been merged into it.
C30_BoxFollowsRule ==
  \A i \in 1..Len(past) : \E trip \in TripsOf(rules) : FollowsRule(past[i].start, trip)

\* Boxes of both trips, one of them extended by a merge, under offsets that are
\* not zero.
C30_Witness ==
  /\ now # Inf
  /\ \E i \in 1..Len(past), j \in 1..Len(past) :
       /\ past[i].start.tripId = "a"
       /\ past[j].start.tripId = "b"
       /\ past[i].start.r0 # past[i].start.departH0
       /\ past[i].start.arriveH0 # past[i].start.r0
       /\ past[j].start.arriveH0 = 0 - 1
       /\ past[j].rf - past[j].start.r0 >= 2

(***************************************************************************)
(* Departure bands of the logged boxes, checked under Spec.                *)
(***************************************************************************)
\* the half-open intervals [s1, e1) and [s2, e2) have no point in common
Disjoint(s1, e1, s2, e2) == e1 <= s2 \/ e2 <= s1

DepartEnd(b) == Plus(b.start.departH0, Minus(b.rf, b.start.r0))

\* C31: in every reachable state, two distinct Boxes of past with the same tripId
\* have disjoint departure bands [departH0, departH0 + (rf - r0)) and disjoint
\* real-time intervals [r0, rf).
C31_NoDoubleDeparture ==
  \A i \in 1..Len(past), j \in 1..Len(past) :
    (i < j /\ past[i].start.tripId = past[j].start.tripId) =>
      /\ Disjoint(past[i].start.departH0, DepartEnd(past[i]),
                  past[j].start.departH0, DepartEnd(past[j]))
      /\ Disjoint(past[i].start.r0, past[i].rf, past[j].start.r0, past[j].rf)

\* Two Boxes of one trip, one of them extended by a merge, and a Box of the other
\* trip between their departures.
C31_Witness ==
  /\ now # Inf
  /\ \E i \in 1..Len(past), j \in 1..Len(past), k \in 1..Len(past) :
       /\ i < j
       /\ past[i].start.tripId = past[j].start.tripId
       /\ past[k].start.tripId # past[i].start.tripId
       /\ past[i].start.departH0 < past[j].start.departH0
       /\ past[i].rf - past[i].start.r0 >= 2

(***************************************************************************)
(* Integer closure, checked under Spec (integer offsets).                  *)
(***************************************************************************)
\* a JavaScript number that is an integer or +Infinity: not NaN, not -Infinity
IntegerOrInfinity(x) == x \in Int /\ x # NaN /\ x > NegInf /\ x <= Inf

IntegerFields ==
  /\ IntegerOrInfinity(now)
  /\ \A i \in 1..Len(chunks) :
       IntegerOrInfinity(chunks[i].start) /\ IntegerOrInfinity(chunks[i].end)
  /\ \A i \in 1..Len(past) :
       /\ IntegerOrInfinity(past[i].start.r0)
       /\ IntegerOrInfinity(past[i].rf)
       /\ IntegerOrInfinity(past[i].start.departH0)
       /\ IntegerOrInfinity(past[i].start.arriveH0)

\* C32: with integer depart and arrive offsets, in every state reachable from the
\* initial GodView now, every chunk start and end and every Box field is an
\* integer or +infinity (never NaN or -infinity), and every step that returns a
\* finite now advances the clock by at least 1.
C32_IntegerClosure ==
  /\ []IntegerFields
  /\ [][(err' = "none" /\ now' # Inf) => now' >= now + 1]_vars

\* A finite clock after several steps, one of them longer than one unit, with a
\* Box that has reached +infinity nowhere and a traveler gone to a negative hypertime.
C32_Witness ==
  /\ now # Inf
  /\ now >= 3
  /\ \E i \in 1..Len(past) : past[i].rf - past[i].start.r0 >= 2 /\ past[i].start.arriveH0 >= 0
  /\ \E i \in 1..Len(past) : past[i].start.arriveH0 < 0 - 1

(***************************************************************************)
(* normalizeGodView as a pure function: any ruleset with offsets in        *)
(* EventOffsets, any clock up to MaxEmptyNow, any chunk list that passes   *)
(* validation (adjacent chunks may share a history), and a past that is    *)
(* empty or two boxes of one trip that end by now, the second starting     *)
(* where the first ends.                                                   *)
(***************************************************************************)
ValidChunkLists ==
  UNION {{ChunksOf(<<0>> \o SortedSeq(B) \o <<Inf>>, hist) :
            hist \in [1..(Cardinality(B) + 1) -> Histories]} :
         B \in SUBSET (1..MaxBoundary)}

NormalizePasts(n) ==
  {<<>>} \cup {<<BoxR(EventR("a", 0, 0, 1), 1), BoxR(EventR("a", 1, 1, 2), rf)>> : rf \in 2..n}

InitNormalize ==
  /\ rules \in RulesetsOver(EventOffsets)
  /\ now \in 0..MaxEmptyNow
  /\ chunks \in ValidChunkLists
  /\ past \in NormalizePasts(now)
  /\ InitFrame

NormalizeGodViewCall ==
  /\ pc = "idle"
  /\ err = "none"
  /\ out.op = "none"
  /\ Returned(normalizeGodView(GV), "normalizeGodView")
  /\ UNCHANGED <<rules, now, chunks, past, pc, target, entry, calls>>

NextNormalize == NormalizeGodViewCall

SpecNormalize == InitNormalize /\ [][NextNormalize]_vars

SameEvents(evs1, evs2) ==
  /\ evs1.err = "none"
  /\ evs2.err = "none"
  /\ Range(evs1.val) = Range(evs2.val)
  /\ \A e \in Range(evs1.val) : Occurrences(evs1.val, e) = Occurrences(evs2.val, e)

PreservesEvents(g) ==
  /\ SameEvents(getNonPastEvents(GV), getNonPastEvents(g))
  /\ DepartPoints(GV) \subseteq StartsOf(g.chunks)
  /\ normalizeGodView(g) = Ok(g)

\* C33: for a GodView whose chunks pass validation, getNonPastEvents of the
\* normalized GodView holds exactly the events of getNonPastEvents of the input
\* (the start of every chunk that yields a non-past event is still a chunk start
\* after merging), and normalizing the result again returns it unchanged.
C33_NormalizationPreservesEvents ==
  out.op = "normalizeGodView" => PreservesEvents(out.val)

\* Adjacent chunks of equal history on both sides of two boundaries: one boundary
\* is kept because an event departs from it, the other is merged away, and the two
\* boxes of the past are merged into one.
C33_Witness ==
  /\ out.op = "normalizeGodView"
  /\ Len(chunks) = 3
  /\ chunks[1].history = chunks[2].history
  /\ chunks[2].history = chunks[3].history
  /\ Len(out.val.chunks) = 2
  /\ getNonPastEvents(GV).val # <<>>
  /\ Len(past) = 2
  /\ Len(out.val.past) = 1

(***************************************************************************)
(* Travelers leaving for a negative hypertime, checked under Spec.         *)
(***************************************************************************)
GainsNowhere(id) ==
  \A x \in LandingPoints : id \in HistoryAt(chunks', x) => id \in HistoryAt(chunks, x)

OffTheEdge(e) ==
  /\ GainsNowhere(e.tripId)
  /\ \E j \in 1..Len(past') : RecordsEvent(e, j)
  /\ Minus(now', now) <= Abs(e.arriveH0)

\* C34: an immediate event with arriveH0 < 0 adds its trip id to the history of
\* no hypertime in that step, is still logged as a Box ending at the returned now,
\* and bounds the step: dt <= |arriveH0|.
C34_OffTheEdge ==
  [][err' = "none" =>
       \A e \in LoggedBy(normalizeGodView(GV)) : e.arriveH0 < 0 => OffTheEdge(e)]_vars

\* A traveler that left for hypertime -2 or before and stayed in transit for two
\* units or more, next to a traveler that landed at a hypertime >= 0.
C34_Witness ==
  /\ now # Inf
  /\ \E i \in 1..Len(past), j \in 1..Len(past) :
       /\ past[i].start.arriveH0 <= 0 - 2
       /\ past[i].rf - past[i].start.r0 >= 2
       /\ past[i].start.tripId \notin UNION {chunks[k].history : k \in 1..Len(chunks)}
       /\ past[j].start.arriveH0 >= 0

(***************************************************************************)
(* evolveChunks on any argument list: no event, or one or two events with  *)
(* r0 in 0..MaxR0, equal or not.                                           *)
(***************************************************************************)
MaxR0 == 1

ArgEvents ==
  {EventR(id, r, d, a) :
     id \in TripIds, r \in 0..MaxR0, d \in 0..MaxBoundary, a \in (0 - NegOffset)..MaxBoundary}

ArgEventLists ==
  {<<>>} \cup {<<e>> : e \in ArgEvents} \cup {<<e1, e2>> : e1 \in ArgEvents, e2 \in ArgEvents}

InitEvolveArgs ==
  /\ rules = EmptyRules
  /\ now = 0
  /\ chunks \in BandChunkLists
  /\ past = <<>>
  /\ err = "none"
  /\ pc = "idle"
  /\ target = 0
  /\ calls = 0
  /\ out = NoOut
  /\ entry \in [events : ArgEventLists, dt : DtValues]

NextEvolveArgs == EvolveChunksCall

SpecEvolveArgs == InitEvolveArgs /\ [][NextEvolveArgs]_vars

DifferentR0s(events) ==
  \E i \in 1..Len(events), j \in 1..Len(events) : events[i].r0 # events[j].r0

Called == out.op = "evolveChunks" \/ err # "none"

\* C35: evolveChunks throws, returning no chunks, whenever its event list holds
\* two events with different r0 (and only then); with an empty event list it
\* returns the input chunks unchanged.
C35_MultipleR0sRejected ==
  Called =>
    /\ DifferentR0s(entry.events) => (err = "multiple r0s" /\ out.op = "none")
    /\ ~DifferentR0s(entry.events) => (err = "none" /\ out.op = "evolveChunks")
    /\ entry.events = <<>> => (err = "none" /\ out.op = "evolveChunks" /\ out.val = chunks)

\* A call that threw on two events of different r0 whose bands would both have
\* split a chunk.
C35_Witness ==
  /\ err = "multiple r0s"
  /\ Len(entry.events) = 2
  /\ entry.events[1].r0 < entry.events[2].r0
  /\ entry.events[1].arriveH0 >= 0
  /\ entry.events[2].arriveH0 >= 0
  /\ Len(chunks) >= 2

(***************************************************************************)
(* normalizeGodView on any past: an empty universe with the initial chunk  *)
(* list, any clock up to MaxEmptyNow and any list of at most two boxes,    *)
(* of positive, zero or negative length.                                   *)
(***************************************************************************)
MaxBoxR0 == 2
MaxBoxLen == 2
MaxBoxH == 1

BoxesOfLength(lens) ==
  {BoxR(EventR(id, r, d, a), r + len) :
     id \in TripIds, r \in 0..MaxBoxR0, len \in lens, d \in 0..MaxBoxH, a \in 0..MaxBoxH}

AnyBoxes == BoxesOfLength((0 - 1)..MaxBoxLen)

AnyPasts == {<<>>} \cup {<<b>> : b \in AnyBoxes} \cup {<<b1, b2>> : b1 \in AnyBoxes, b2 \in AnyBoxes}

InitPast ==
  /\ rules = EmptyRules
  /\ now \in 0..MaxEmptyNow
  /\ chunks = InitialChunks
  /\ past \in AnyPasts
  /\ InitFrame

NextPast == NormalizeGodViewCall

SpecPast == InitPast /\ [][NextPast]_vars

BadBoxes(boxes, n) ==
  {i \in 1..Len(boxes) : boxes[i].start.r0 >= boxes[i].rf \/ boxes[i].rf > n}

RejectsBadPast(boxes) ==
  /\ BadBoxes(boxes, now) # {} => (err \in BoxErrors /\ out.op = "none")
  /\ BadBoxes(boxes, now) = {} =>
       (err = "none" /\ out.op = "normalizeGodView" /\ out.val.past = boxes)

\* C36: normalizeGodView throws, returning no GodView, whenever some Box of the
\* normalized past has start.r0 >= rf or rf > now; otherwise it returns the
\* normalized past as it is.
C36_BadPastRejected ==
  (out.op = "normalizeGodView" \/ err # "none") => RejectsBadPast(normalizeBoxes(past))

\* Rejected for a box reaching beyond the clock although every box has a positive
\* length; the two boxes of the input were merged into the offending one.
C36_Witness ==
  /\ err = "supposedly-past event is actually in future"
  /\ Len(past) = 2
  /\ Len(normalizeBoxes(past)) = 1
  /\ \A i \in 1..2 : past[i].start.r0 < past[i].rf
  /\ past[1].rf <= now

(***************************************************************************)
(* The gap check of normalizeChunks, checked under SpecChunks.             *)
(***************************************************************************)
\* sorted by start, some chunk does not start where the chunk before it ends
Discontiguous(s) == \E i \in 1..(Len(s) - 1) : s[i + 1].start # s[i].end

\* C37: normalizeChunks throws, and returns no list, when its input starts at 0,
\* ends at +infinity and has only chunks of positive length but, once sorted by
\* start, some chunk's start differs from the end of the chunk before it (a gap
\* or an overlap); such a list without gap or overlap is accepted.
C37_GapsRejected ==
  [][~InvalidChunks(chunks) =>
       IF Discontiguous(sortChunks(chunks))
       THEN err' = "chunks have gaps" /\ out'.op = "none" /\ chunks' = chunks
       ELSE err' = "none" /\ out'.op = "normalizeChunks"]_vars

\* Rejected for a gap between two chunks, and rejected for two overlapping chunks
\* given out of order: the list starts at 0, ends at +infinity and every chunk has
\* a positive length.
C37_Witness ==
  /\ err = "chunks have gaps"
  /\ ~InvalidChunks(chunks)
  /\ Len(chunks) = MaxChunks
  /\ chunks[1].start > chunks[2].start
  /\ \E i \in 1..(Len(chunks) - 1) : sortChunks(chunks)[i + 1].start > sortChunks(chunks)[i].end
  /\ \E i \in 1..(Len(chunks) - 1) : sortChunks(chunks)[i + 1].start < sortChunks(chunks)[i].end

(***************************************************************************)
(* parseRuleset (App.tsx).  A line of the ruleset text is modelled by the  *)
(* outcome of the regular expression on it: no match, or the history key,  *)
(* the trip id (with or without a semicolon in it) and the two offsets     *)
(* (written with or without a '.').  The result is a tagged value.         *)
(***************************************************************************)
MaxLines == 2
MaxParseOffset == 1

ParseOk(v) == [type |-> "ok", val |-> v, err |-> "none"]

ParseErr(msg) == [type |-> "err", val |-> EmptyRules, err |-> msg]

\* ts.push(trip).sortBy(t => t.depart)
pushSorted(ts, trip) ==
  LET s == SortPairs([k \in 1..(Len(ts) + 1) |->
                        IF k <= Len(ts) THEN <<ts[k].depart, ts[k]>>
                        ELSE <<trip.depart, trip>>])
  IN [k \in 1..Len(s) |-> s[k][2]]

\* The loop over the lines; tripIds is the set the duplicate test reads, which
\* the loop body never adds to.
RECURSIVE parseRulesetLoop(_, _, _, _)
parseRulesetLoop(lines, tripIds, rs, i) ==
  IF i > Len(lines)
  THEN IF rs = EmptyRules THEN ParseErr("no rules found") ELSE ParseOk(rs)
  ELSE IF ~lines[i].match THEN ParseErr("expected line of format")
  ELSE IF lines[i].semicolon THEN ParseErr("trip id can't have a semicolon")
  ELSE IF lines[i].dotted THEN ParseErr("integers only")
  ELSE IF lines[i].tripId \in tripIds THEN ParseErr("duplicate trip id")
  ELSE parseRulesetLoop(
         lines, tripIds,
         [rs EXCEPT ![lines[i].history] =
            pushSorted(@, TripR(lines[i].tripId, lines[i].depart, lines[i].arrive))],
         i + 1)

parseRuleset(lines) == parseRulesetLoop(lines, {}, EmptyRules, 1)

ParseLines ==
  [match : BOOLEAN, history : {{}, {"a"}}, tripId : TripIds,
   semicolon : BOOLEAN, dotted : BOOLEAN, depart : 0..MaxParseOffset, arrive : {0}]

ParseInputs == UNION {[1..n -> ParseLines] : n \in 0..MaxLines}

InitParse ==
  /\ rules = EmptyRules
  /\ InitGodView
  /\ err = "none"
  /\ pc = "idle"
  /\ target = 0
  /\ calls = 0
  /\ out = NoOut
  /\ entry \in [lines : ParseInputs]

\* the editor parses its text and hands an ok ruleset to the core
ParseHandedOver(res) ==
  /\ out' = [op |-> "parseRuleset", val |-> res]
  /\ rules' = IF res.type = "ok" THEN res.val ELSE rules

ParseCall ==
  /\ pc = "idle"
  /\ out.op = "none"
  /\ ParseHandedOver(parseRuleset(entry.lines))
  /\ UNCHANGED <<now, chunks, past, err, pc, target, entry, calls>>

NextParse == ParseCall

SpecParse == InitParse /\ [][NextParse]_vars

\* the same trip id appears in more than one rule line
DuplicateLineIds(lines) ==
  \E i \in 1..Len(lines), j \in 1..Len(lines) : i < j /\ lines[i].tripId = lines[j].tripId

\* the trips of a ruleset, as <<key, position>> slots
RuleSlots(rs) == {<<h, k>> : h \in Histories, k \in 1..MaxLines}

DuplicateTripIds(rs) ==
  \E s \in RuleSlots(rs), t \in RuleSlots(rs) :
    /\ s # t
    /\ s[2] <= Len(rs[s[1]])
    /\ t[2] <= Len(rs[t[1]])
    /\ rs[s[1]][s[2]].id = rs[t[1]][t[2]].id

\* C38: parseRuleset returns an error result whenever the same trip id appears in
\* more than one rule line, so the ruleset handed to the core never holds two
\* trips with the same id.
C38_DuplicateIdsRejected ==
  /\ (out.op = "parseRuleset" /\ DuplicateLineIds(entry.lines)) => out.val.type = "err"
  /\ ~DuplicateTripIds(rules)

(***************************************************************************)
(* normalizeBoxes as a pure function: any list of at most MaxBoxes boxes,  *)
(* of positive, zero or negative length, in any order.                     *)
(***************************************************************************)
MaxBoxes == 3

BoxLists == UNION {[1..n -> AnyBoxes] : n \in 0..MaxBoxes}

InitBoxes ==
  /\ rules = EmptyRules
  /\ now = 0
  /\ chunks = InitialChunks
  /\ past \in BoxLists
  /\ InitFrame

NormalizeBoxesCall ==
  /\ pc = "idle"
  /\ out.op = "none"
  /\ out' = [op |-> "normalizeBoxes", val |-> normalizeBoxes(past)]
  /\ UNCHANGED <<rules, now, chunks, past, err, pc, target, entry, calls>>

NextBoxes == NormalizeBoxesCall

SpecBoxes == InitBoxes /\ [][NextBoxes]_vars

BoxTimes == (0 - 1)..(MaxBoxR0 + MaxBoxLen)

\* the real times t with r0 <= t < rf for some Box of trip id
CoveredBy(boxes, id) ==
  {t \in BoxTimes : \E i \in 1..Len(boxes) :
     boxes[i].start.tripId = id /\ boxes[i].start.r0 <= t /\ t < boxes[i].rf}

\* o is an input Box unchanged, or an input Box P whose rf was moved to the rf of
\* an input Box of the same trip, some input Box of that trip starting at P.rf
KeptOrExtended(o, boxes) ==
  \E p \in 1..Len(boxes) :
    /\ boxes[p].start = o.start
    /\ \/ o.rf = boxes[p].rf
       \/ \E n \in 1..Len(boxes), m \in 1..Len(boxes) :
            /\ n # p
            /\ boxes[n].start.tripId = o.start.tripId
            /\ boxes[n].start.r0 = boxes[p].rf
            /\ boxes[p].start.r0 <= boxes[n].start.r0
            /\ boxes[m].start.tripId = o.start.tripId
            /\ boxes[m].rf = o.rf

MergesOnlyJoining(res, boxes) ==
  /\ Len(res) <= Len(boxes)
  /\ \A i \in 1..Len(res) : KeptOrExtended(res[i], boxes)

SameCoverage(res, boxes) == \A id \in TripIds : CoveredBy(res, id) = CoveredBy(boxes, id)

====
